---- MODULE Spec2Model ----
(***************************************************************************)
(* Smart PAC service: the host matcher, the proxy resolver and the PAC     *)
(* serializer (utils), the D1 data layer (api) and the multi-user API      *)
(* with its pre-expanded static PAC generator.                             *)
(*                                                                         *)
(* Text is modelled as a sequence of pieces.  Host names and rule          *)
(* patterns that are matched character by character are sequences of       *)
(* one-character pieces (<<"*", ".", "a">> is "*.a"); a directive such as  *)
(* "SOCKS p1:8080" is <<"SOCKS", " ", "p1", ":", "8080">>.                 *)
(***************************************************************************)
EXTENDS Integers, Sequences, FiniteSets, TLC

VARIABLES
    call,        \* the function of utils applied last ("none" before any call)
    host,        \* the host name being browsed (argument host)
    rule,        \* the rule pattern handed to hostMatch (argument rule)
    matched,     \* the value hostMatch returned
    hostConfig,  \* the HostConfig snapshot: [hosts, rules]
    proxies,     \* the text findProxyForURL returned
    pac,         \* the script generatePac returned
    pacResult,   \* what FindProxyForURL of that script evaluated to
    apiHosts,    \* multi-user API: the rows of table hosts
    apiRules,    \* multi-user API: the rows of table rules
    apiNextHostId,  \* multi-user API: the id the next inserted host gets
    apiNextRuleId,  \* multi-user API: the id the next inserted rule gets
    pacUser,     \* the user GET /api/pac was answered for (0: not yet requested)
    pacContent,  \* the script GET /api/pac answered with
    pacReturn,   \* what FindProxyForURL of that script returned for host
    deleteHostReq,  \* multi-user API: the deleteHost request in progress: [pc, user, id]
    updateRuleReq,  \* multi-user API: the updateRule request in progress: [pc, user, body, k, target]
    apiResponse,    \* multi-user API: the response sent last, and what it was about
    apiUserRows,    \* multi-user API: the users table, rows [id, token]
    d1Hosts,     \* D1: the rows of table hosts
    d1Rules,     \* D1: the rows of table rules, in rowid order
    d1NextHostId,  \* D1: the id AUTOINCREMENT gives the next inserted host
    delHostPc,   \* delHost: "idle", "deleted" (after DELETE), "read" (updates built)
    delHostId,   \* delHost: its argument id
    delHostUpdates,  \* delHost: the UPDATE statements it prepared, <<rule, host_ids>>
    d1Call,      \* D1: the call made last: [name, arg, status, value]
    d1Before,    \* D1: what listHosts and listRules gave when that call began
    delHostRefsOk,  \* delHost: every rule named only existing hosts when it began
    delHostRaced,   \* delHost: the addOrUpdateRule committed while it ran, <<rule, hostIds>>
    getPending,  \* getHostConfig: the statement still to run ("none": no call running)
    getPart,     \* getHostConfig: the result of the statement that ran first
    getReturn,   \* getHostConfig: the HostConfig returned last, and the delHost running then
    storedHostIds,  \* a stored rules.host_ids value: [null, text]
    givenHostIds,   \* the hostIds array handed to addOrUpdateRule (JavaScript values)
    hostIdsCall,    \* the function applied to them last ("none" before any call)
    hostIdsResult   \* what parseHostIds of storedHostIds gave: [threw, value]

utilVars == <<call, host, rule, matched, hostConfig, proxies, pac, pacResult>>
apiReqVars == <<deleteHostReq, updateRuleReq, apiResponse, apiUserRows>>
apiVars == <<apiHosts, apiRules, apiNextHostId, apiNextRuleId, pacUser, pacContent, pacReturn,
             apiReqVars>>

d1CallVars == <<d1Call, d1Before>>
d1ReadVars == <<delHostRefsOk, getPending, getPart, getReturn>>
d1ObsVars == <<d1CallVars, d1ReadVars, delHostRaced>>

hostIdsVars == <<storedHostIds, givenHostIds, hostIdsCall, hostIdsResult>>

d1Vars == <<d1Hosts, d1Rules, d1NextHostId, delHostPc, delHostId, delHostUpdates, d1ObsVars,
            hostIdsVars>>

vars == <<utilVars, apiVars, d1Vars>>

-----------------------------------------------------------------------------
(* Bounds and the small domains the inputs are drawn from.                 *)

MaxLen == 4        \* longest host name / pattern handed to hostMatch
MaxRules == 2      \* most rules of a HostConfig

HostChars == {"a", "A", "."}
PatternChars == HostChars \cup {"*"}

StringsOver(chars, n) == UNION {[1..k -> chars] : k \in 0..n}

\* JavaScript's undefined, for an optional field that is absent.
Undefined == "undefined"

\* A JavaScript value a script returns: a string or undefined.
StringValue(text) == [type |-> "string", text |-> text]
UndefinedValue == [type |-> "undefined", text |-> <<>>]

-----------------------------------------------------------------------------
(* utils: hostMatch                                                        *)

\* String.prototype.startsWith(search)
StartsWith(s, search) ==
    /\ Len(search) <= Len(s)
    /\ SubSeq(s, 1, Len(search)) = search

\* String.prototype.endsWith(search)
EndsWith(s, search) ==
    LET start == Len(s) - Len(search)
    IN  /\ start >= 0
        /\ SubSeq(s, start + 1, Len(s)) = search

\* String.prototype.slice(n)
Slice(s, n) == SubSeq(s, n + 1, Len(s))

\* A hostMatch that asks for a label boundary in front of the suffix.
hostMatchBoundary(h, r) ==
    IF StartsWith(r, <<"*", ".">>)
    THEN \/ h = Slice(r, 2)
         \/ EndsWith(h, Slice(r, 1))
    ELSE h = r

hostMatch(h, r) ==
    IF StartsWith(r, <<"*", ".">>)
    THEN EndsWith(h, Slice(r, 2))
    ELSE h = r

-----------------------------------------------------------------------------
(* utils: resolveHostsByRule, findProxyForURL                              *)

\* String.prototype.split(sep) over a text of pieces.
RECURSIVE Split(_, _)
Split(text, sep) ==
    LET seps == {i \in 1..Len(text) : text[i] = sep}
    IN  IF seps = {} THEN <<text>>
        ELSE LET i == CHOOSE k \in seps : \A m \in seps : k <= m
             IN  <<SubSeq(text, 1, i - 1)>> \o Split(SubSeq(text, i + 1, Len(text)), sep)

\* The least element of a non-empty set of indices, 0 for the empty set.
FirstOf(hits) == IF hits = {} THEN 0 ELSE CHOOSE i \in hits : \A j \in hits : i <= j
LastOf(hits) == IF hits = {} THEN 0 ELSE CHOOSE i \in hits : \A j \in hits : i >= j

\* hosts.find((item) => item.id === hostId), as the index found (0: undefined)
FindHost(hosts, hostId) == FirstOf({i \in 1..Len(hosts) : hosts[i].id = hostId})

\* Array.prototype.join(sep) over texts
RECURSIVE Join(_, _)
Join(texts, sep) ==
    IF texts = <<>> THEN <<>>
    ELSE IF Len(texts) = 1 THEN texts[1]
    ELSE texts[1] \o <<sep>> \o Join(Tail(texts), sep)

\* hostRule[1].map(hostId => hosts.find(item => item.id === hostId)).filter(Boolean):
\* find is carried as the index of the host found, 0 standing for undefined.
HostsOfRule(config, hostRule) ==
    LET mapped == [j \in 1..Len(hostRule[2]) |-> FindHost(config.hosts, hostRule[2][j])]
        kept == SelectSeq(mapped, LAMBDA k : k # 0)
    IN  [j \in 1..Len(kept) |-> config.hosts[kept[j]]]

\* A resolver in which the last matching rule wins.
resolveHostsByRuleLast(config, h) ==
    LET i == LastOf({k \in 1..Len(config.rules) : hostMatch(h, config.rules[k][1])})
    IN  IF i = 0 THEN <<>> ELSE HostsOfRule(config, config.rules[i])

resolveHostsByRule(config, h) ==
    LET i == FirstOf({k \in 1..Len(config.rules) : hostMatch(h, config.rules[k][1])})
    IN  IF i = 0 THEN <<>> ELSE HostsOfRule(config, config.rules[i])

\* A directive template that prints the type as stored.
DirectiveRawType(item) == <<item.type, " ", item.host, ":", ToString(item.port)>>

\* `${item.type || 'PROXY'} ${item.host}:${item.port}`
Directive(item) ==
    <<(IF item.type \in {Undefined, ""} THEN "PROXY" ELSE item.type),
      " ", item.host, ":", ToString(item.port)>>

\* A findProxyForURL that forgets the fallback when a proxy was found.
findProxyForURLNoFallback(config, url, h) ==
    LET matchedHosts == resolveHostsByRule(config, h)
        list == [j \in 1..Len(matchedHosts) |-> Directive(matchedHosts[j])]
    IN  IF list = <<>> THEN <<"DIRECT">> ELSE Join(list, ";")

findProxyForURL(config, url, h) ==
    LET matchedHosts == resolveHostsByRule(config, h)
        list == [j \in 1..Len(matchedHosts) |-> Directive(matchedHosts[j])]
    IN  Join(Append(list, <<"DIRECT">>), ";")

-----------------------------------------------------------------------------
(* utils: generatePac, and the evaluation of the script it returns         *)

\* JSON.stringify of one host: a property whose value is undefined is left out.
JSONStringifyHost(item) ==
    SelectSeq(<<<<"id", item.id>>, <<"host", item.host>>,
                <<"port", item.port>>, <<"type", item.type>>>>,
              LAMBDA kv : kv[1] # "type" \/ kv[2] # Undefined)

\* Reading property key of an object literal: undefined when it has none.
Property(object, key) ==
    LET k == FirstOf({i \in 1..Len(object) : object[i][1] = key})
    IN  IF k = 0 THEN Undefined ELSE object[k][2]

\* The value the literal `const hostConfig=...` evaluates to.
EvalHostConfig(literal) ==
    [hosts |-> [j \in 1..Len(literal.hosts) |->
                  [id |-> Property(literal.hosts[j], "id"),
                   host |-> Property(literal.hosts[j], "host"),
                   port |-> Property(literal.hosts[j], "port"),
                   type |-> Property(literal.hosts[j], "type")]],
     rules |-> literal.rules]

\* The script text: the config literal and the functions whose source it holds.
generatePac(config) ==
    [hostConfig |-> [hosts |-> [j \in 1..Len(config.hosts) |-> JSONStringifyHost(config.hosts[j])],
                     rules |-> config.rules],
     functions |-> <<"hostMatch", "findProxyForURL", "FindProxyForURL">>]

Defines(script, name) == \E j \in 1..Len(script.functions) : script.functions[j] = name

Returned(text) == [threw |-> FALSE, value |-> text]
ReferenceError(name) == [threw |-> TRUE, value |-> <<"ReferenceError", name>>]

\* FindProxyForURL(url, host) of the script, in an environment holding only the
\* script's own definitions: a call of a name the script does not define throws.
\* findProxyForURL calls resolveHostsByRule first; that one calls hostMatch once
\* per rule scanned.
RunFindProxyForURL(script, url, h) ==
    LET config == EvalHostConfig(script.hostConfig)
    IN  IF ~Defines(script, "findProxyForURL") THEN ReferenceError("findProxyForURL")
        ELSE IF ~Defines(script, "resolveHostsByRule") THEN ReferenceError("resolveHostsByRule")
        ELSE IF config.rules # <<>> /\ ~Defines(script, "hostMatch") THEN ReferenceError("hostMatch")
        ELSE Returned(findProxyForURL(config, url, h))

-----------------------------------------------------------------------------
(* Inputs of the utils specifications.                                     *)

HostIds == 1..3
Urls == {<<"https://", "x", "/">>, <<"http://", "y", "/">>}
ProxyTypes == {"SOCKS", "", Undefined}

\* Every duplicate-free list of host ids.
HostIdLists ==
    {l \in StringsOver(HostIds, Cardinality(HostIds)) :
        \A i, j \in 1..Len(l) : i # j => l[i] # l[j]}

RulePatterns == {<<"*", ".", "a">>, <<"A", ".", "a">>}
QueryHosts == {<<"A", ".", "a">>, <<"a">>, <<"A">>}

Host1(type) == [id |-> 1, host |-> "p1", port |-> 8080, type |-> type]
Host2 == [id |-> 2, host |-> "p2", port |-> 8081, type |-> "HTTP"]

\* Host id 3 is never the id of a host: a rule naming it has a dangling id.
HostLists ==
    {<<>>, <<Host1("SOCKS")>>} \cup {<<Host1(t), Host2>> : t \in ProxyTypes}

RuleLists == StringsOver(RulePatterns \X HostIdLists, MaxRules)

NoText == <<"(none)">>
NoScript == [hostConfig |-> [hosts |-> <<>>, rules |-> <<>>], functions |-> <<>>]
NoConfig == [hosts |-> <<>>, rules |-> <<>>]
NoReturn == [config |-> NoConfig, delHost |-> 0, refsOk |-> TRUE]
NoCall == [name |-> "none", arg |-> 0, status |-> "returned", value |-> 0]

\* No request in progress, no response sent.
NoDeleteHost == [pc |-> "none", user |-> 0, id |-> 0, blocked |-> FALSE]
NoUpdateRule ==
    [pc |-> "none", user |-> 0, body |-> [id |-> 0, pattern |-> <<>>, host_ids |-> <<>>],
     k |-> 0, target |-> "none", blocked |-> FALSE]
NoResponse ==
    [route |-> "none", token |-> "", user |-> 0, status |-> 0, blocked |-> FALSE,
     wrote |-> FALSE, data |-> <<>>]

\* The multi-user API before any request.
ApiInit ==
    /\ apiHosts = {}
    /\ apiRules = {}
    /\ apiNextHostId = 1
    /\ apiNextRuleId = 1
    /\ pacUser = 0
    /\ pacContent = <<>>
    /\ pacReturn = UndefinedValue
    /\ deleteHostReq = NoDeleteHost
    /\ updateRuleReq = NoUpdateRule
    /\ apiResponse = NoResponse
    /\ apiUserRows = {[id |-> 1, token |-> "tA"]}

\* No stored value decoded, no list encoded.
HostIdsInit ==
    /\ storedHostIds = [null |-> FALSE, text |-> <<"[", "]">>]
    /\ givenHostIds = <<>>
    /\ hostIdsCall = "none"
    /\ hostIdsResult = [threw |-> FALSE, value |-> <<>>]

\* The D1 store after the migration, no call running.
D1StoreInit ==
    /\ d1Hosts = {}
    /\ d1Rules = <<>>
    /\ d1NextHostId = 1
    /\ delHostPc = "idle"
    /\ delHostId = 0
    /\ delHostUpdates = <<>>
    /\ d1Call = NoCall
    /\ d1Before = NoConfig
    /\ delHostRefsOk = TRUE
    /\ delHostRaced = <<>>
    /\ getPending = "none"
    /\ getPart = <<>>
    /\ getReturn = NoReturn

D1Init == D1StoreInit /\ HostIdsInit

\* utils before any call.
UtilsInit ==
    /\ call = "none"
    /\ host = <<>>
    /\ rule = <<>>
    /\ matched = FALSE
    /\ hostConfig = NoConfig
    /\ proxies = NoText
    /\ pac = NoScript
    /\ pacResult = Returned(NoText)

-----------------------------------------------------------------------------
(* SpecMatch: hostMatch applied to every host name and pattern.            *)

InitMatch ==
    /\ call = "none"
    /\ host \in StringsOver(HostChars, MaxLen)
    /\ rule \in StringsOver(PatternChars, MaxLen)
    /\ matched = FALSE
    /\ hostConfig = NoConfig
    /\ proxies = NoText
    /\ pac = NoScript
    /\ pacResult = Returned(NoText)
    /\ ApiInit
    /\ D1Init

CallHostMatch ==
    /\ call = "none"
    /\ call' = "hostMatch"
    /\ matched' = hostMatch(host, rule)
    /\ UNCHANGED <<host, rule, hostConfig, proxies, pac, pacResult, apiVars, d1Vars>>

NextMatch == CallHostMatch

SpecMatch == InitMatch /\ [][NextMatch]_vars

-----------------------------------------------------------------------------
(* SpecUtils: findProxyForURL, generatePac and the generated script.       *)

InitUtils ==
    /\ call = "none"
    /\ host \in QueryHosts
    /\ rule = <<>>
    /\ matched = FALSE
    /\ hostConfig \in [hosts : HostLists, rules : RuleLists]
    /\ proxies = NoText
    /\ pac = NoScript
    /\ pacResult = Returned(NoText)
    /\ ApiInit
    /\ D1Init

CallFindProxyForURL ==
    /\ call = "none"
    /\ call' = "findProxyForURL"
    /\ \E url \in Urls : proxies' = findProxyForURL(hostConfig, url, host)
    /\ UNCHANGED <<host, rule, matched, hostConfig, pac, pacResult, apiVars, d1Vars>>

CallGeneratePac ==
    /\ call = "findProxyForURL"
    /\ call' = "generatePac"
    /\ pac' = generatePac(hostConfig)
    /\ UNCHANGED <<host, rule, matched, hostConfig, proxies, pacResult, apiVars, d1Vars>>

\* The PAC engine evaluates FindProxyForURL(url, host) of the served script.
CallFindProxyForURLOfPac ==
    /\ call = "generatePac"
    /\ call' = "FindProxyForURL"
    /\ \E url \in Urls : pacResult' = RunFindProxyForURL(pac, url, host)
    /\ UNCHANGED <<host, rule, matched, hostConfig, proxies, pac, apiVars, d1Vars>>

NextUtils ==
    \/ CallFindProxyForURL
    \/ CallGeneratePac
    \/ CallFindProxyForURLOfPac

SpecUtils == InitUtils /\ [][NextUtils]_vars

-----------------------------------------------------------------------------
(* The multi-user API: tables hosts and rules, rows owned by a user.       *)

MaxApiRules == 2   \* most rules ever inserted

\* The ids hosts get (at most that many hosts are ever inserted).
ApiHostIds == {1, 2}

ApiUsers == {1}
ApiTypes == {"SOCKS", "HTTP", "HTTPS", "PROXY"}
ApiPatterns == {<<"*", ".", "a">>, <<"A", ".", "a">>}
ApiQueryHosts == {<<"A", ".", "a">>, <<"a">>, <<"A", ".", "a", ".", "A">>}

\* Every duplicate-free list over the host ids that can exist.
ApiHostIdLists ==
    {l \in StringsOver(ApiHostIds, Cardinality(ApiHostIds)) :
        \A i, j \in 1..Len(l) : i # j => l[i] # l[j]}

\* Request bodies; id 0 stands for a body without id, "" for a missing field.
HostBodies ==
    [id : {0} \cup ApiHostIds, type : ApiTypes, host : {"p1"}, port : {8080}]
        \cup {[id |-> 0, type |-> "", host |-> "p1", port |-> 8080]}
RuleBodies ==
    [id : 0..MaxApiRules, pattern : ApiPatterns, host_ids : ApiHostIdLists]
        \cup {[id |-> 0, pattern |-> <<>>, host_ids |-> <<>>]}
DeleteRuleBodies ==
    [id : 1..MaxApiRules, pattern : {<<>>}] \cup [id : {0}, pattern : ApiPatterns \cup {<<>>}]

\* JSON.stringify of an array of numbers
JSONStringifyIds(ids) ==
    <<"[">> \o Join([j \in 1..Len(ids) |-> <<ToString(ids[j])>>], ",") \o <<"]">>

\* The number a decimal numeral denotes.
ParseNumber(numeral) == CHOOSE n \in 0..99 : ToString(n) = numeral

\* JSON.parse of the text of an array of numbers
JSONParseIds(text) ==
    LET inner == SubSeq(text, 2, Len(text) - 1)
        items == IF inner = <<>> THEN <<>> ELSE Split(inner, ",")
    IN  [j \in 1..Len(items) |-> ParseNumber(items[j][1])]

\* Code points, for the ordering of ORDER BY pattern.
CharCode(c) ==
    CASE c = "*" -> 42
      [] c = "." -> 46
      [] c = "A" -> 65
      [] c = "a" -> 97

\* p sorts before q (binary collation).
PatternLess(p, q) ==
    \E k \in 1..(Len(q)) :
        /\ \A i \in 1..(k - 1) : i <= Len(p) /\ p[i] = q[i]
        /\ \/ k = Len(p) + 1
           \/ k <= Len(p) /\ CharCode(p[k]) < CharCode(q[k])

\* SELECT * FROM hosts WHERE user_id = ? ORDER BY id
RECURSIVE OrderById(_)
OrderById(rows) ==
    IF rows = {} THEN <<>>
    ELSE LET first == CHOOSE r \in rows : \A q \in rows : r.id <= q.id
         IN  <<first>> \o OrderById(rows \ {first})

\* ... ORDER BY pattern (rows of equal pattern in id order)
RECURSIVE OrderByPattern(_)
OrderByPattern(rows) ==
    IF rows = {} THEN <<>>
    ELSE LET first == CHOOSE r \in rows : \A q \in rows :
                          \/ PatternLess(r.pattern, q.pattern)
                          \/ r.pattern = q.pattern /\ r.id <= q.id
         IN  <<first>> \o OrderByPattern(rows \ {first})

HostsOfUser(u) == {h \in apiHosts : h.user_id = u}
RulesOfUser(u) == {r \in apiRules : r.user_id = u}

\* POST /api/updateHost
UpdateHost(u, body) ==
    /\ pacUser = 0
    /\ IF body.type = ""
       THEN UNCHANGED <<apiHosts, apiNextHostId>>                      \* 400
       ELSE IF body.id # 0
       THEN IF \A h \in HostsOfUser(u) : h.id # body.id
            THEN UNCHANGED <<apiHosts, apiNextHostId>>                 \* 404
            ELSE /\ apiHosts' = {IF h.id = body.id /\ h.user_id = u
                                 THEN [h EXCEPT !.type = body.type, !.host = body.host,
                                                !.port = body.port]
                                 ELSE h : h \in apiHosts}
                 /\ UNCHANGED apiNextHostId
       ELSE /\ apiNextHostId \in ApiHostIds
            /\ apiHosts' = apiHosts \cup
                  {[id |-> apiNextHostId, user_id |-> u, type |-> body.type,
                    host |-> body.host, port |-> body.port]}
            /\ apiNextHostId' = apiNextHostId + 1
    /\ UNCHANGED <<apiRules, apiNextRuleId, pacUser, pacContent, pacReturn, utilVars, d1Vars>>

\* DELETE /api/deleteHost
DeleteHost(u, id) ==
    /\ pacUser = 0
    /\ IF id = 0
       THEN UNCHANGED apiHosts                                         \* 400
       ELSE IF \A h \in HostsOfUser(u) : h.id # id
       THEN UNCHANGED apiHosts                                         \* 404
       ELSE IF \E r \in RulesOfUser(u) :
                  \E j \in 1..Len(JSONParseIds(r.host_ids)) : JSONParseIds(r.host_ids)[j] = id
       THEN UNCHANGED apiHosts                                         \* 400
       ELSE apiHosts' = {h \in apiHosts : ~(h.id = id /\ h.user_id = u)}
    /\ UNCHANGED <<apiRules, apiNextHostId, apiNextRuleId, pacUser, pacContent, pacReturn, utilVars, d1Vars>>

\* POST /api/updateRule
UpdateRule(u, body) ==
    /\ pacUser = 0
    /\ IF body.pattern = <<>>
       THEN UNCHANGED <<apiRules, apiNextRuleId>>                      \* 400
       ELSE IF \E j \in 1..Len(body.host_ids) : \A h \in HostsOfUser(u) : h.id # body.host_ids[j]
       THEN UNCHANGED <<apiRules, apiNextRuleId>>                      \* 400
       ELSE IF body.id # 0
       THEN IF \A r \in RulesOfUser(u) : r.id # body.id
            THEN UNCHANGED <<apiRules, apiNextRuleId>>                 \* 404
            ELSE /\ apiRules' = {IF r.id = body.id /\ r.user_id = u
                                 THEN [r EXCEPT !.pattern = body.pattern,
                                                !.host_ids = JSONStringifyIds(body.host_ids)]
                                 ELSE r : r \in apiRules}
                 /\ UNCHANGED apiNextRuleId
       ELSE IF \E r \in RulesOfUser(u) : r.pattern = body.pattern
       THEN /\ apiRules' = {IF r.pattern = body.pattern /\ r.user_id = u
                            THEN [r EXCEPT !.host_ids = JSONStringifyIds(body.host_ids)]
                            ELSE r : r \in apiRules}
            /\ UNCHANGED apiNextRuleId
       ELSE /\ apiNextRuleId <= MaxApiRules
            /\ apiRules' = apiRules \cup
                  {[id |-> apiNextRuleId, user_id |-> u, pattern |-> body.pattern,
                    host_ids |-> JSONStringifyIds(body.host_ids)]}
            /\ apiNextRuleId' = apiNextRuleId + 1
    /\ UNCHANGED <<apiHosts, apiNextHostId, pacUser, pacContent, pacReturn, utilVars, d1Vars>>

\* DELETE /api/deleteRule
DeleteRule(u, body) ==
    /\ pacUser = 0
    /\ IF body.id = 0 /\ body.pattern = <<>>
       THEN UNCHANGED apiRules                                         \* 400
       ELSE IF body.id # 0
       THEN IF \A r \in RulesOfUser(u) : r.id # body.id
            THEN UNCHANGED apiRules                                    \* 404
            ELSE apiRules' = {r \in apiRules : ~(r.id = body.id /\ r.user_id = u)}
       ELSE IF \A r \in RulesOfUser(u) : r.pattern # body.pattern
            THEN UNCHANGED apiRules                                    \* 404
            ELSE apiRules' = {r \in apiRules : ~(r.pattern = body.pattern /\ r.user_id = u)}
    /\ UNCHANGED <<apiHosts, apiNextHostId, apiNextRuleId, pacUser, pacContent, pacReturn, utilVars, d1Vars>>

-----------------------------------------------------------------------------
(* GET /api/pac: the pre-expanded static script.                           *)

\* String.prototype.replace(/c/g, with)
RECURSIVE ReplaceAll(_, _, _)
ReplaceAll(text, c, with) ==
    IF text = <<>> THEN <<>>
    ELSE (IF Head(text) = c THEN with ELSE <<Head(text)>>) \o ReplaceAll(Tail(text), c, with)

\* The translation that escapes the dots first and expands the stars after.
EscapeThenExpand(pattern) ==
    ReplaceAll(ReplaceAll(pattern, ".", <<"\\", ".">>), "*", <<".", "*">>)

\* rule.pattern.replace(/\*/g, '.*').replace(/\./g, '\\.')
PatternToRegex(pattern) ==
    ReplaceAll(ReplaceAll(pattern, "*", <<".", "*">>), ".", <<"\\", ".">>)

\* One statement of the script: its kind, the host id and the text it carries.
Statement(kind, id, text) == [kind |-> kind, id |-> id, text |-> text]

\* hosts.forEach: one entry of the PROXY table per host of a known type.
ProxyEntries(hostRows) ==
    LET entry(h) ==
            IF h.type = "SOCKS" THEN <<Statement("entry", h.id, <<"SOCKS5", " ", h.host, ":", ToString(h.port)>>)>>
            ELSE IF h.type = "HTTP" THEN <<Statement("entry", h.id, <<"PROXY", " ", h.host, ":", ToString(h.port)>>)>>
            ELSE IF h.type = "HTTPS" THEN <<Statement("entry", h.id, <<"HTTPS", " ", h.host, ":", ToString(h.port)>>)>>
            ELSE <<>>
        RECURSIVE all(_)
        all(rows) == IF rows = <<>> THEN <<>> ELSE entry(Head(rows)) \o all(Tail(rows))
    IN  all(hostRows)

\* A generator that emits one conditional per host id of a rule.
ConditionalsAllIds(ruleRows) ==
    LET cond(r) ==
            LET hostIds == JSONParseIds(r.host_ids)
            IN  [j \in 1..Len(hostIds) |-> Statement("if", hostIds[j], PatternToRegex(r.pattern))]
        RECURSIVE all(_)
        all(rows) == IF rows = <<>> THEN <<>> ELSE cond(Head(rows)) \o all(Tail(rows))
    IN  all(ruleRows)

\* rules.forEach: `if (/${pattern}/.test(host)) return PROXY[${hostIds[0]}];`
Conditionals(ruleRows) ==
    LET cond(r) ==
            LET hostIds == JSONParseIds(r.host_ids)
            IN  IF Len(hostIds) > 0
                THEN <<Statement("if", hostIds[1], PatternToRegex(r.pattern))>>
                ELSE <<>>
        RECURSIVE all(_)
        all(rows) == IF rows = <<>> THEN <<>> ELSE cond(Head(rows)) \o all(Tail(rows))
    IN  all(ruleRows)

\* The script, statement by statement.
PacContent(hostRows, ruleRows) ==
    <<Statement("var DEFAULT", 0, <<"DIRECT">>)>>
    \o ProxyEntries(hostRows)
    \o Conditionals(ruleRows)
    \o <<Statement("return DEFAULT", 0, <<>>)>>

Pac(u) ==
    /\ pacUser = 0
    /\ pacUser' = u
    /\ pacContent' = PacContent(OrderById(HostsOfUser(u)), OrderByPattern(RulesOfUser(u)))
    /\ UNCHANGED <<apiHosts, apiRules, apiNextHostId, apiNextRuleId, pacReturn, utilVars, d1Vars>>

-----------------------------------------------------------------------------
(* The PAC engine evaluating the static script.                            *)

\* The atoms of a regular expression text, each with its "*" flag: "\." is a
\* literal dot, "." any character, every other character itself.
RECURSIVE RegexTokens(_)
RegexTokens(text) ==
    IF text = <<>> THEN <<>>
    ELSE LET escaped == Head(text) = "\\" /\ Len(text) >= 2
             used == IF escaped THEN 2 ELSE 1
             atom == IF escaped THEN [any |-> FALSE, char |-> text[2]]
                     ELSE IF Head(text) = "." THEN [any |-> TRUE, char |-> "."]
                     ELSE [any |-> FALSE, char |-> Head(text)]
             star == Len(text) > used /\ text[used + 1] = "*"
             rest == SubSeq(text, used + (IF star THEN 2 ELSE 1), Len(text))
         IN  <<[atom |-> atom, star |-> star]>> \o RegexTokens(rest)

\* The positions of s reached from from by consuming one character the atom accepts.
RegexStep(atom, s, from) ==
    {q + 1 : q \in {q \in from : q < Len(s) /\ (atom.any \/ s[q + 1] = atom.char)}}

\* The positions reached by zero or more such steps.
RECURSIVE RegexStar(_, _, _)
RegexStar(atom, s, from) ==
    LET more == from \cup RegexStep(atom, s, from)
    IN  IF more = from THEN from ELSE RegexStar(atom, s, more)

\* The positions of s where a match of tokens that began in from can end.
RECURSIVE RegexEnds(_, _, _)
RegexEnds(tokens, s, from) ==
    IF tokens = <<>> THEN from
    ELSE RegexEnds(Tail(tokens), s,
                   IF Head(tokens).star THEN RegexStar(Head(tokens).atom, s, from)
                   ELSE RegexStep(Head(tokens).atom, s, from))

\* /regex/.test(s): the expression matches somewhere in s (it has no anchors).
RegexTest(regex, s) == RegexEnds(RegexTokens(regex), s, 0..Len(s)) # {}

\* PROXY[id]: the entry of the table literal with key id (the last one written).
ProxyLookup(content, id) ==
    LET i == LastOf({k \in 1..Len(content) : content[k].kind = "entry" /\ content[k].id = id})
    IN  IF i = 0 THEN UndefinedValue ELSE StringValue(content[i].text)

\* FindProxyForURL(url, host) of the static script: the first statement, in
\* program order, that returns.
RunPacContent(content, h) ==
    LET returns(k) ==
            \/ content[k].kind = "return DEFAULT"
            \/ content[k].kind = "if" /\ RegexTest(content[k].text, h)
        i == FirstOf({k \in 1..Len(content) : returns(k)})
    IN  IF i = 0 THEN UndefinedValue
        ELSE IF content[i].kind = "if" THEN ProxyLookup(content, content[i].id)
        ELSE LET d == FirstOf({k \in 1..Len(content) : content[k].kind = "var DEFAULT"})
             IN  IF d = 0 THEN UndefinedValue ELSE StringValue(content[d].text)

\* A PAC engine evaluates the served script for a host.
FindProxyForURLOfPacContent(h) ==
    /\ pacUser # 0
    /\ call = "none"
    /\ call' = "FindProxyForURL"
    /\ host' = h
    /\ pacReturn' = RunPacContent(pacContent, h)
    /\ UNCHANGED <<apiHosts, apiRules, apiNextHostId, apiNextRuleId, pacUser, pacContent>>
    /\ UNCHANGED <<rule, matched, hostConfig, proxies, pac, pacResult, d1Vars>>

InitApi == UtilsInit /\ ApiInit /\ D1Init

NextApi ==
    \/ \E u \in ApiUsers, body \in HostBodies : UpdateHost(u, body) /\ UNCHANGED apiReqVars
    \/ \E u \in ApiUsers, id \in {0} \cup ApiHostIds : DeleteHost(u, id) /\ UNCHANGED apiReqVars
    \/ \E u \in ApiUsers, body \in RuleBodies : UpdateRule(u, body) /\ UNCHANGED apiReqVars
    \/ \E u \in ApiUsers, body \in DeleteRuleBodies : DeleteRule(u, body) /\ UNCHANGED apiReqVars
    \/ \E u \in ApiUsers : Pac(u) /\ UNCHANGED apiReqVars
    \/ \E h \in ApiQueryHosts : FindProxyForURLOfPacContent(h) /\ UNCHANGED apiReqVars

SpecApi == InitApi /\ [][NextApi]_vars

-----------------------------------------------------------------------------
(* deleteHost and updateRule statement by statement: each await of a       *)
(* database statement is a step, and the statements of one request of each *)
(* route may interleave.                                                   *)

\* What a response records beside its status: blocked tells whether the
\* condition under which the route must refuse held in the rows the request
\* selected (deleteHost: a rule of the user lists the id; updateRule: a listed
\* host id is no host of the user), wrote whether the request changed a table.
Response(route, token, user, status, blocked, wrote, data) ==
    [route |-> route, token |-> token, user |-> user, status |-> status,
     blocked |-> blocked, wrote |-> wrote, data |-> data]

\* hostIds.includes(Number(id)) for some rule of the user
RuleListsHost(u, id) ==
    \E r \in RulesOfUser(u) :
        \E j \in 1..Len(JSONParseIds(r.host_ids)) : JSONParseIds(r.host_ids)[j] = id

\* Some id of the list is the id of no host of the user.
HostMissing(u, hostIds) ==
    \E j \in 1..Len(hostIds) : \A h \in HostsOfUser(u) : h.id # hostIds[j]

\* deleteHost: the body is read, then SELECT id FROM hosts WHERE id AND user_id
DeleteHostSelectHost(u, id) ==
    /\ deleteHostReq.pc = "none"
    /\ IF id = 0
       THEN /\ apiResponse' = Response("deleteHost", "", u, 400, RuleListsHost(u, id), FALSE, <<>>)
            /\ UNCHANGED deleteHostReq
       ELSE IF \A h \in HostsOfUser(u) : h.id # id
       THEN /\ apiResponse' = Response("deleteHost", "", u, 404, RuleListsHost(u, id), FALSE, <<>>)
            /\ UNCHANGED deleteHostReq
       ELSE /\ deleteHostReq' = [pc |-> "host", user |-> u, id |-> id, blocked |-> FALSE]
            /\ UNCHANGED apiResponse
    /\ UNCHANGED <<apiHosts, apiRules, apiNextHostId, apiNextRuleId, pacUser, pacContent, pacReturn>>
    /\ UNCHANGED <<updateRuleReq, apiUserRows, utilVars, d1Vars>>

\* deleteHost: SELECT * FROM rules WHERE user_id, and the loop over the rules
DeleteHostSelectRules ==
    /\ deleteHostReq.pc = "host"
    /\ IF RuleListsHost(deleteHostReq.user, deleteHostReq.id)
       THEN /\ apiResponse' = Response("deleteHost", "", deleteHostReq.user, 400, TRUE, FALSE, <<>>)
            /\ deleteHostReq' = NoDeleteHost
       ELSE /\ deleteHostReq' = [deleteHostReq EXCEPT !.pc = "rules", !.blocked = FALSE]
            /\ UNCHANGED apiResponse
    /\ UNCHANGED <<apiHosts, apiRules, apiNextHostId, apiNextRuleId, pacUser, pacContent, pacReturn>>
    /\ UNCHANGED <<updateRuleReq, apiUserRows, utilVars, d1Vars>>

\* deleteHost: DELETE FROM hosts WHERE id AND user_id, and the answer
DeleteHostDelete ==
    /\ deleteHostReq.pc = "rules"
    /\ apiHosts' = {h \in apiHosts : ~(h.id = deleteHostReq.id /\ h.user_id = deleteHostReq.user)}
    /\ apiResponse' = Response("deleteHost", "", deleteHostReq.user, 200, deleteHostReq.blocked,
                               apiHosts' # apiHosts, <<>>)
    /\ deleteHostReq' = NoDeleteHost
    /\ UNCHANGED <<apiRules, apiNextHostId, apiNextRuleId, pacUser, pacContent, pacReturn>>
    /\ UNCHANGED <<updateRuleReq, apiUserRows, utilVars, d1Vars>>

\* updateRule: the body is read and its fields are checked
UpdateRuleBody(u, body) ==
    /\ updateRuleReq.pc = "none"
    /\ IF body.pattern = <<>>
       THEN /\ apiResponse' = Response("updateRule", "", u, 400, HostMissing(u, body.host_ids), FALSE, <<>>)
            /\ UNCHANGED updateRuleReq
       ELSE /\ updateRuleReq' = [pc |-> IF body.host_ids = <<>> THEN "rule" ELSE "hosts",
                                 user |-> u, body |-> body, k |-> 1, target |-> "none",
                                 blocked |-> FALSE]
            /\ UNCHANGED apiResponse
    /\ UNCHANGED <<apiHosts, apiRules, apiNextHostId, apiNextRuleId, pacUser, pacContent, pacReturn>>
    /\ UNCHANGED <<deleteHostReq, apiUserRows, utilVars, d1Vars>>

\* updateRule: SELECT id FROM hosts WHERE id AND user_id, for the k-th host id
UpdateRuleSelectHost ==
    /\ updateRuleReq.pc = "hosts"
    /\ IF \A h \in HostsOfUser(updateRuleReq.user) : h.id # updateRuleReq.body.host_ids[updateRuleReq.k]
       THEN /\ apiResponse' = Response("updateRule", "", updateRuleReq.user, 400, TRUE, FALSE, <<>>)
            /\ updateRuleReq' = NoUpdateRule
       ELSE /\ updateRuleReq' =
                  IF updateRuleReq.k = Len(updateRuleReq.body.host_ids)
                  THEN [updateRuleReq EXCEPT !.pc = "rule"]
                  ELSE [updateRuleReq EXCEPT !.k = updateRuleReq.k + 1]
            /\ UNCHANGED apiResponse
    /\ UNCHANGED <<apiHosts, apiRules, apiNextHostId, apiNextRuleId, pacUser, pacContent, pacReturn>>
    /\ UNCHANGED <<deleteHostReq, apiUserRows, utilVars, d1Vars>>

\* updateRule: SELECT id FROM rules, by id when the body has one, else by pattern
UpdateRuleSelectRule ==
    /\ updateRuleReq.pc = "rule"
    /\ LET u == updateRuleReq.user
           body == updateRuleReq.body
       IN  IF body.id # 0 /\ \A r \in RulesOfUser(u) : r.id # body.id
           THEN /\ apiResponse' = Response("updateRule", "", u, 404, updateRuleReq.blocked, FALSE, <<>>)
                /\ updateRuleReq' = NoUpdateRule
           ELSE /\ body.id = 0 /\ (\A r \in RulesOfUser(u) : r.pattern # body.pattern)
                      => apiNextRuleId <= MaxApiRules
                /\ updateRuleReq' =
                      [updateRuleReq EXCEPT
                          !.pc = "write",
                          !.target = IF body.id # 0 THEN "id"
                                     ELSE IF \E r \in RulesOfUser(u) : r.pattern = body.pattern
                                     THEN "pattern" ELSE "insert"]
                /\ UNCHANGED apiResponse
    /\ UNCHANGED <<apiHosts, apiRules, apiNextHostId, apiNextRuleId, pacUser, pacContent, pacReturn>>
    /\ UNCHANGED <<deleteHostReq, apiUserRows, utilVars, d1Vars>>

\* updateRule: the UPDATE or the INSERT it decided on, and the answer
UpdateRuleWrite ==
    /\ updateRuleReq.pc = "write"
    /\ LET u == updateRuleReq.user
           body == updateRuleReq.body
           hostIdsJson == JSONStringifyIds(body.host_ids)
       IN  /\ IF updateRuleReq.target = "id"
              THEN /\ apiRules' = {IF r.id = body.id /\ r.user_id = u
                                   THEN [r EXCEPT !.pattern = body.pattern, !.host_ids = hostIdsJson]
                                   ELSE r : r \in apiRules}
                   /\ UNCHANGED apiNextRuleId
              ELSE IF updateRuleReq.target = "pattern"
              THEN /\ apiRules' = {IF r.pattern = body.pattern /\ r.user_id = u
                                   THEN [r EXCEPT !.host_ids = hostIdsJson]
                                   ELSE r : r \in apiRules}
                   /\ UNCHANGED apiNextRuleId
              ELSE /\ apiRules' = apiRules \cup
                         {[id |-> apiNextRuleId, user_id |-> u, pattern |-> body.pattern,
                           host_ids |-> hostIdsJson]}
                   /\ apiNextRuleId' = apiNextRuleId + 1
           /\ apiResponse' = Response("updateRule", "", u, 200, updateRuleReq.blocked,
                                      apiRules' # apiRules, <<>>)
    /\ updateRuleReq' = NoUpdateRule
    /\ UNCHANGED <<apiHosts, apiNextHostId, pacUser, pacContent, pacReturn>>
    /\ UNCHANGED <<deleteHostReq, apiUserRows, utilVars, d1Vars>>

\* The bodies sent while requests interleave: hosts are only added, and a
\* rule body lists no host, the first host, or every host.
RaceHostBodies == {body \in HostBodies : body.id = 0 /\ body.type \in {"SOCKS", ""}}
RaceRuleBodies ==
    {body \in RuleBodies :
        /\ body.id \in {0, 1}
        /\ body.host_ids \in {<<>>, <<1>>} \cup {l \in ApiHostIdLists : Len(l) = Cardinality(ApiHostIds) /\ l[1] = 1}}

\* SpecApiRace: hosts are added and rules removed by whole requests; one
\* deleteHost and one updateRule request run statement by statement.
NextApiRace ==
    \/ \E u \in ApiUsers, body \in RaceHostBodies : UpdateHost(u, body) /\ UNCHANGED apiReqVars
    \/ \E u \in ApiUsers, body \in DeleteRuleBodies : DeleteRule(u, body) /\ UNCHANGED apiReqVars
    \/ \E u \in ApiUsers, id \in {0} \cup ApiHostIds : DeleteHostSelectHost(u, id)
    \/ DeleteHostSelectRules
    \/ DeleteHostDelete
    \/ \E u \in ApiUsers, body \in RaceRuleBodies : UpdateRuleBody(u, body)
    \/ UpdateRuleSelectHost
    \/ UpdateRuleSelectRule
    \/ UpdateRuleWrite

SpecApiRace == InitApi /\ [][NextApiRace]_vars

-----------------------------------------------------------------------------
(* The routes behind authMiddleware, for several users: every request      *)
(* carries credentials, is answered, and the answer is delivered before    *)
(* the next request arrives.                                               *)

\* The ids users get (at most that many users ever register).
UserIds == {1, 2}
UserTokens == {"tA", "tB"}

\* What a request carries: the Authorization header with 'Bearer ' removed,
\* and the token parameter of the query; "" stands for an absent one.
Credentials ==
    [header : {""}, query : {""} \cup UserTokens]
        \cup [header : UserTokens, query : {""}]
        \cup {[header |-> "tB", query |-> "tA"]}

\* c.req.header('Authorization')?.replace('Bearer ', '') || c.req.query('token')
TokenOf(cred) == IF cred.header # "" THEN cred.header ELSE cred.query

\* SELECT * FROM users WHERE token = ?
SelectUsers(token) == {usr \in apiUserRows : usr.token = token}

\* authMiddleware: 401 without a token or with a token of no user; else the
\* first row found is the user of the request.
authMiddleware(cred) ==
    IF TokenOf(cred) = "" THEN [status |-> 401, user |-> 0]
    ELSE LET results == SelectUsers(TokenOf(cred))
         IN  IF results = {} THEN [status |-> 401, user |-> 0]
             ELSE [status |-> 0, user |-> OrderById(results)[1].id]

\* SELECT ... FROM hosts / rules WHERE user_id = ?
SelectHostsOfAnyUser(hosts, u) == hosts
SelectHosts(hosts, u) == {h \in hosts : h.user_id = u}
SelectRules(rules, u) == {r \in rules : r.user_id = u}

\* results.map: host_ids parsed, the other columns kept
ParsedRules(ruleRows) ==
    [j \in 1..Len(ruleRows) |-> [ruleRows[j] EXCEPT !.host_ids = JSONParseIds(ruleRows[j].host_ids)]]

\* rulesRaw.map((rule) => [rule.pattern, JSON.parse(rule.host_ids)])
ExportedRules(ruleRows) ==
    [j \in 1..Len(ruleRows) |-> <<ruleRows[j].pattern, JSONParseIds(ruleRows[j].host_ids)>>]

\* The body a GET route answers for user u from the two tables.
HostListData(hosts, u) == OrderById(SelectHosts(hosts, u))
RuleListData(rules, u) == ParsedRules(OrderByPattern(SelectRules(rules, u)))
ExportConfigData(hosts, rules, u) ==
    [hosts |-> OrderById(SelectHosts(hosts, u)),
     rules |-> ExportedRules(OrderByPattern(SelectRules(rules, u)))]
PacData(hosts, rules, u) ==
    PacContent(OrderById(SelectHosts(hosts, u)), OrderByPattern(SelectRules(rules, u)))

\* The status each writing route answers for user u in the current tables.
UpdateHostStatus(u, body) ==
    IF body.type = "" THEN 400
    ELSE IF body.id # 0 /\ \A h \in HostsOfUser(u) : h.id # body.id THEN 404
    ELSE 200
DeleteHostStatus(u, id) ==
    IF id = 0 THEN 400
    ELSE IF \A h \in HostsOfUser(u) : h.id # id THEN 404
    ELSE IF RuleListsHost(u, id) THEN 400
    ELSE 200
UpdateRuleStatus(u, body) ==
    IF body.pattern = <<>> THEN 400
    ELSE IF HostMissing(u, body.host_ids) THEN 400
    ELSE IF body.id # 0 /\ \A r \in RulesOfUser(u) : r.id # body.id THEN 404
    ELSE 200
DeleteRuleStatus(u, body) ==
    IF body.id = 0 /\ body.pattern = <<>> THEN 400
    ELSE IF body.id # 0 /\ \A r \in RulesOfUser(u) : r.id # body.id THEN 404
    ELSE IF body.id = 0 /\ \A r \in RulesOfUser(u) : r.pattern # body.pattern THEN 404
    ELSE 200

\* authMiddleware answered 401: the handler of the route never ran.
Unauthorized(cred, route) ==
    /\ apiResponse' = Response(route, TokenOf(cred), 0, 401, FALSE, FALSE, <<>>)
    /\ UNCHANGED <<apiHosts, apiRules, apiNextHostId, apiNextRuleId, pacUser, pacContent, pacReturn>>
    /\ UNCHANGED <<deleteHostReq, updateRuleReq, apiUserRows, utilVars, d1Vars>>

\* A GET route answered with data.
Answered(cred, route, data) ==
    /\ apiResponse' = Response(route, TokenOf(cred), authMiddleware(cred).user, 200, FALSE, FALSE, data)
    /\ UNCHANGED <<apiHosts, apiRules, apiNextHostId, apiNextRuleId, pacUser, pacContent, pacReturn>>
    /\ UNCHANGED <<deleteHostReq, updateRuleReq, apiUserRows, utilVars, d1Vars>>

\* POST /register (no authMiddleware): a user with an unused token is inserted
Register(token) ==
    /\ apiResponse = NoResponse
    /\ IF token = "" \/ \E usr \in apiUserRows : usr.token = token
       THEN /\ apiResponse' = Response("register", "", 0, 400, FALSE, FALSE, <<>>)
            /\ UNCHANGED apiUserRows
       ELSE /\ Cardinality(apiUserRows) < Cardinality(UserIds)
            /\ apiUserRows' = apiUserRows \cup {[id |-> Cardinality(apiUserRows) + 1, token |-> token]}
            /\ apiResponse' = Response("register", "", 0, 200, FALSE, TRUE, <<>>)
    /\ UNCHANGED <<apiHosts, apiRules, apiNextHostId, apiNextRuleId, pacUser, pacContent, pacReturn>>
    /\ UNCHANGED <<deleteHostReq, updateRuleReq, utilVars, d1Vars>>

\* POST /updateUser: the user of the request takes a token no other user has;
\* token "" stands for a body that gives a name only.
UpdateUser(cred, token) ==
    /\ apiResponse = NoResponse
    /\ LET auth == authMiddleware(cred)
       IN  IF auth.status = 401 THEN Unauthorized(cred, "updateUser")
           ELSE /\ IF token # "" /\ \E usr \in apiUserRows : usr.token = token /\ usr.id # auth.user
                   THEN /\ apiResponse' = Response("updateUser", TokenOf(cred), auth.user, 400, FALSE, FALSE, <<>>)
                        /\ UNCHANGED apiUserRows
                   ELSE /\ apiUserRows' = {IF usr.id = auth.user /\ token # ""
                                           THEN [usr EXCEPT !.token = token]
                                           ELSE usr : usr \in apiUserRows}
                        /\ apiResponse' = Response("updateUser", TokenOf(cred), auth.user, 200, FALSE,
                                                   apiUserRows' # apiUserRows, <<>>)
                /\ UNCHANGED <<apiHosts, apiRules, apiNextHostId, apiNextRuleId, pacUser, pacContent, pacReturn>>
                /\ UNCHANGED <<deleteHostReq, updateRuleReq, utilVars, d1Vars>>

\* GET /hostList
HostList(cred) ==
    /\ apiResponse = NoResponse
    /\ IF authMiddleware(cred).status = 401 THEN Unauthorized(cred, "hostList")
       ELSE Answered(cred, "hostList", HostListData(apiHosts, authMiddleware(cred).user))

\* GET /ruleList
RuleList(cred) ==
    /\ apiResponse = NoResponse
    /\ IF authMiddleware(cred).status = 401 THEN Unauthorized(cred, "ruleList")
       ELSE Answered(cred, "ruleList", RuleListData(apiRules, authMiddleware(cred).user))

\* GET /exportConfig
ExportConfig(cred) ==
    /\ apiResponse = NoResponse
    /\ IF authMiddleware(cred).status = 401 THEN Unauthorized(cred, "exportConfig")
       ELSE Answered(cred, "exportConfig", ExportConfigData(apiHosts, apiRules, authMiddleware(cred).user))

\* GET /pac, answered with the script
PacOfUser(cred) ==
    /\ apiResponse = NoResponse
    /\ IF authMiddleware(cred).status = 401 THEN Unauthorized(cred, "pac")
       ELSE Answered(cred, "pac", PacData(apiHosts, apiRules, authMiddleware(cred).user))

\* POST /updateHost behind authMiddleware
UpdateHostOfUser(cred, body) ==
    /\ apiResponse = NoResponse
    /\ LET auth == authMiddleware(cred)
       IN  IF auth.status = 401 THEN Unauthorized(cred, "updateHost")
           ELSE /\ UpdateHost(auth.user, body)
                /\ apiResponse' = Response("updateHost", TokenOf(cred), auth.user,
                                           UpdateHostStatus(auth.user, body), FALSE,
                                           apiHosts' # apiHosts, <<>>)
                /\ UNCHANGED <<deleteHostReq, updateRuleReq, apiUserRows>>

\* DELETE /deleteHost behind authMiddleware
DeleteHostOfUser(cred, id) ==
    /\ apiResponse = NoResponse
    /\ LET auth == authMiddleware(cred)
       IN  IF auth.status = 401 THEN Unauthorized(cred, "deleteHost")
           ELSE /\ DeleteHost(auth.user, id)
                /\ apiResponse' = Response("deleteHost", TokenOf(cred), auth.user,
                                           DeleteHostStatus(auth.user, id),
                                           RuleListsHost(auth.user, id), apiHosts' # apiHosts, <<>>)
                /\ UNCHANGED <<deleteHostReq, updateRuleReq, apiUserRows>>

\* POST /updateRule behind authMiddleware
UpdateRuleOfUser(cred, body) ==
    /\ apiResponse = NoResponse
    /\ LET auth == authMiddleware(cred)
       IN  IF auth.status = 401 THEN Unauthorized(cred, "updateRule")
           ELSE /\ UpdateRule(auth.user, body)
                /\ apiResponse' = Response("updateRule", TokenOf(cred), auth.user,
                                           UpdateRuleStatus(auth.user, body),
                                           HostMissing(auth.user, body.host_ids),
                                           apiRules' # apiRules, <<>>)
                /\ UNCHANGED <<deleteHostReq, updateRuleReq, apiUserRows>>

\* DELETE /deleteRule behind authMiddleware
DeleteRuleOfUser(cred, body) ==
    /\ apiResponse = NoResponse
    /\ LET auth == authMiddleware(cred)
       IN  IF auth.status = 401 THEN Unauthorized(cred, "deleteRule")
           ELSE /\ DeleteRule(auth.user, body)
                /\ apiResponse' = Response("deleteRule", TokenOf(cred), auth.user,
                                           DeleteRuleStatus(auth.user, body), FALSE,
                                           apiRules' # apiRules, <<>>)
                /\ UNCHANGED <<deleteHostReq, updateRuleReq, apiUserRows>>

\* The response has reached the client; the next request may arrive.
Deliver ==
    /\ apiResponse # NoResponse
    /\ apiResponse' = NoResponse
    /\ UNCHANGED <<apiHosts, apiRules, apiNextHostId, apiNextRuleId, pacUser, pacContent, pacReturn>>
    /\ UNCHANGED <<deleteHostReq, updateRuleReq, apiUserRows, utilVars, d1Vars>>

\* The bodies the users send: hosts of two types, rules of one pattern that
\* list at most one host.
UserHostBodies == {body \in HostBodies : body.type \in {"SOCKS", "HTTP", ""}}
UserRuleBodies ==
    {body \in RuleBodies : body.pattern \in {<<>>, <<"*", ".", "a">>} /\ Len(body.host_ids) <= 1}
UserDeleteRuleBodies == {body \in DeleteRuleBodies : body.pattern \in {<<>>, <<"*", ".", "a">>}}

NextApiUsers ==
    \/ \E token \in {""} \cup UserTokens : Register(token)
    \/ \E cred \in Credentials, token \in {""} \cup UserTokens : UpdateUser(cred, token)
    \/ \E cred \in Credentials : HostList(cred)
    \/ \E cred \in Credentials : RuleList(cred)
    \/ \E cred \in Credentials : ExportConfig(cred)
    \/ \E cred \in Credentials : PacOfUser(cred)
    \/ \E cred \in Credentials, body \in UserHostBodies : UpdateHostOfUser(cred, body)
    \/ \E cred \in Credentials, id \in {0} \cup ApiHostIds : DeleteHostOfUser(cred, id)
    \/ \E cred \in Credentials, body \in UserRuleBodies : UpdateRuleOfUser(cred, body)
    \/ \E cred \in Credentials, body \in UserDeleteRuleBodies : DeleteRuleOfUser(cred, body)
    \/ Deliver

SpecApiUsers == InitApi /\ [][NextApiUsers]_vars

-----------------------------------------------------------------------------
(* The D1 data layer (api): tables hosts and rules of the migration.       *)

MaxHostIds == 2    \* longest hostIds list handed to addOrUpdateRule

\* The ids AUTOINCREMENT hands out (at most that many hosts are ever inserted).
D1HostIds == {1, 2}

DEFAULT_PROXY_TYPE == "PROXY"

D1RuleNames == {<<"*", ".", "a">>, <<"A", ".", "a">>}

\* Arguments: id 0 stands for an input without id; the items of hostIds are
\* integers, among them 0 and ids of hosts not inserted or deleted.
HostInputs == [id : {0} \cup D1HostIds, host : {"p1"}, port : {8080}, type : {Undefined, "", " ", "SOCKS"}]
HostIdInputs == StringsOver({0} \cup D1HostIds, MaxHostIds)

\* type && type.trim().length > 0 ? type : DEFAULT_PROXY_TYPE
sanitizeProxyType(type) ==
    IF type # Undefined /\ type # "" /\ type # " " THEN type ELSE DEFAULT_PROXY_TYPE

\* Array.from(new Set(ids)): the first occurrence of every item, in order.
RECURSIVE Unique(_)
Unique(ids) ==
    IF ids = <<>> THEN <<>>
    ELSE LET init == Unique(SubSeq(ids, 1, Len(ids) - 1))
             last == ids[Len(ids)]
         IN  IF \E j \in 1..Len(init) : init[j] = last THEN init ELSE Append(init, last)

\* An encoder that keeps every item.
encodeHostIdsUnfiltered(ids) == JSONStringifyIds(ids)

\* JSON.stringify(Array.from(new Set(ids.filter(Number.isInteger(item) && item > 0))))
encodeHostIds(ids) == JSONStringifyIds(Unique(SelectSeq(ids, LAMBDA item : item > 0)))

\* parseHostIds of a stored array of numbers: map(Number), filter, new Set.
parseHostIds(text) ==
    IF text = <<>> THEN <<>>
    ELSE Unique(SelectSeq(JSONParseIds(text), LAMBDA item : item > 0))

\* normalizeRule
normalizeRule(row) == <<row.rule, parseHostIds(row.host_ids)>>

\* normalizeHost
normalizeHost(row) == [id |-> row.id, host |-> row.host, port |-> row.port,
                       type |-> sanitizeProxyType(row.type)]

\* listHosts: SELECT ... FROM hosts ORDER BY id, normalized
listHosts ==
    LET rows == OrderById(d1Hosts)
    IN  [j \in 1..Len(rows) |-> normalizeHost(rows[j])]

\* listRules: SELECT rule, host_ids FROM rules ORDER BY rowid, normalized
listRules == [j \in 1..Len(d1Rules) |-> normalizeRule(d1Rules[j])]

\* addOrUpdateHost: UPDATE ... WHERE id = ? when the input has an id, else INSERT
addOrUpdateHost(input) ==
    /\ IF input.id # 0
       THEN /\ d1Hosts' = {IF h.id = input.id
                           THEN [h EXCEPT !.host = input.host, !.port = input.port,
                                          !.type = sanitizeProxyType(input.type)]
                           ELSE h : h \in d1Hosts}
            /\ UNCHANGED d1NextHostId
       ELSE /\ d1NextHostId \in D1HostIds
            /\ d1Hosts' = d1Hosts \cup
                  {[id |-> d1NextHostId, host |-> input.host, port |-> input.port,
                    type |-> sanitizeProxyType(input.type)]}
            /\ d1NextHostId' = d1NextHostId + 1
    /\ UNCHANGED <<d1Rules, delHostPc, delHostId, delHostUpdates, utilVars, apiVars, hostIdsVars>>

\* delHost, first statement: DELETE FROM hosts WHERE id = ?
delHostDelete(id) ==
    /\ delHostPc = "idle"
    /\ delHostPc' = "deleted"
    /\ delHostId' = id
    /\ d1Hosts' = {h \in d1Hosts : h.id # id}
    /\ UNCHANGED <<d1Rules, d1NextHostId, delHostUpdates, utilVars, apiVars, hostIdsVars>>

\* Statements that empty every rule naming id instead of filtering it.
DelHostStatementsEmptied(rules, id) ==
    LET touched == SelectSeq(rules, LAMBDA r : \E j \in 1..Len(r[2]) : r[2][j] = id)
    IN  [k \in 1..Len(touched) |-> <<touched[k][1], encodeHostIds(<<>>)>>]

\* The UPDATE statements delHost prepares from the rules it read.
DelHostStatements(rules, id) ==
    LET touched == SelectSeq(rules, LAMBDA r : \E j \in 1..Len(r[2]) : r[2][j] = id)
    IN  [k \in 1..Len(touched) |->
            <<touched[k][1], encodeHostIds(SelectSeq(touched[k][2], LAMBDA hostId : hostId # id))>>]

\* delHost, second statement: listRules, and the updates computed from it
delHostListRules ==
    /\ delHostPc = "deleted"
    /\ delHostPc' = "read"
    /\ delHostUpdates' = DelHostStatements(listRules, delHostId)
    /\ UNCHANGED <<d1Hosts, d1Rules, d1NextHostId, delHostId, utilVars, apiVars, hostIdsVars>>

\* UPDATE rules SET host_ids = ? WHERE rule = ?, one statement after the other
RECURSIVE ApplyUpdates(_, _)
ApplyUpdates(rows, updates) ==
    IF updates = <<>> THEN rows
    ELSE ApplyUpdates([j \in 1..Len(rows) |->
                          IF rows[j].rule = Head(updates)[1]
                          THEN [rows[j] EXCEPT !.host_ids = Head(updates)[2]]
                          ELSE rows[j]],
                      Tail(updates))

\* delHost, last statement: db.batch(updates) when there are any
delHostBatch ==
    /\ delHostPc = "read"
    /\ delHostPc' = "idle"
    /\ d1Rules' = ApplyUpdates(d1Rules, delHostUpdates)
    /\ delHostId' = 0
    /\ delHostUpdates' = <<>>
    /\ UNCHANGED <<d1Hosts, d1NextHostId, utilVars, apiVars, hostIdsVars>>

\* An upsert by INSERT OR REPLACE: the row of a rule already present is deleted
\* and a new row inserted after all others.
addOrUpdateRuleReplace(ruleName, hostIds) ==
    /\ d1Rules' = Append(SelectSeq(d1Rules, LAMBDA r : r.rule # ruleName),
                         [rule |-> ruleName, host_ids |-> encodeHostIds(hostIds)])
    /\ UNCHANGED <<d1Hosts, d1NextHostId, delHostPc, delHostId, delHostUpdates, utilVars, apiVars, hostIdsVars>>

\* addOrUpdateRule: INSERT ... ON CONFLICT(rule) DO UPDATE SET host_ids
addOrUpdateRule(ruleName, hostIds) ==
    /\ IF \E j \in 1..Len(d1Rules) : d1Rules[j].rule = ruleName
       THEN d1Rules' = [j \in 1..Len(d1Rules) |->
                           IF d1Rules[j].rule = ruleName
                           THEN [d1Rules[j] EXCEPT !.host_ids = encodeHostIds(hostIds)]
                           ELSE d1Rules[j]]
       ELSE d1Rules' = Append(d1Rules, [rule |-> ruleName, host_ids |-> encodeHostIds(hostIds)])
    /\ UNCHANGED <<d1Hosts, d1NextHostId, delHostPc, delHostId, delHostUpdates, utilVars, apiVars, hostIdsVars>>

\* delRule: DELETE FROM rules WHERE rule = ?
delRule(ruleName) ==
    /\ d1Rules' = SelectSeq(d1Rules, LAMBDA r : r.rule # ruleName)
    /\ UNCHANGED <<d1Hosts, d1NextHostId, delHostPc, delHostId, delHostUpdates, utilVars, apiVars, hostIdsVars>>

\* What addOrUpdateHost returns: host.id of the input, else the row id of the INSERT.
addOrUpdateHostReturn(input) == IF input.id # 0 THEN input.id ELSE d1NextHostId

\* getHostConfig, the statement of Promise.all([listHosts, listRules]) that runs
\* first: D1 runs the two SELECTs one after the other, in either order.
getHostConfigFirst(statement) ==
    /\ getPending = "none"
    /\ getPart' = IF statement = "hosts" THEN listHosts ELSE listRules
    /\ getPending' = IF statement = "hosts" THEN "rules" ELSE "hosts"
    /\ UNCHANGED <<d1Hosts, d1Rules, d1NextHostId, delHostPc, delHostId, delHostUpdates>>
    /\ UNCHANGED <<d1CallVars, delHostRefsOk, getReturn, delHostRaced, utilVars, apiVars, hostIdsVars>>

\* getHostConfig, the other statement, and return { hosts, rules }
getHostConfigSecond ==
    /\ getPending # "none"
    /\ getReturn' =
          [config |-> IF getPending = "rules"
                      THEN [hosts |-> getPart, rules |-> listRules]
                      ELSE [hosts |-> listHosts, rules |-> getPart],
           delHost |-> IF delHostPc # "idle" THEN delHostId ELSE 0,
           refsOk |-> delHostRefsOk]
    /\ getPending' = "none"
    /\ getPart' = <<>>
    /\ UNCHANGED <<d1Hosts, d1Rules, d1NextHostId, delHostPc, delHostId, delHostUpdates>>
    /\ UNCHANGED <<d1CallVars, delHostRefsOk, delHostRaced, utilVars, apiVars, hostIdsVars>>

\* The ids of the hosts of a list, and whether every rule names only such ids.
IdsOf(hosts) == {hosts[j].id : j \in 1..Len(hosts)}
RefsOk(hosts, rules) ==
    \A j \in 1..Len(rules) : \A k \in 1..Len(rules[j][2]) : rules[j][2][k] \in IdsOf(hosts)

InitD1 == UtilsInit /\ ApiInit /\ D1Init

\* SpecD1: calls of the writers, any of them between the statements of a
\* running delHost.  delHostRaced keeps the addOrUpdateRule that committed while
\* delHost(id) ran with a list without id, as long as no later call wrote rules.
NextD1 ==
    \/ \E input \in HostInputs : addOrUpdateHost(input) /\ UNCHANGED d1ObsVars
    \/ \E id \in D1HostIds :
          delHostDelete(id) /\ delHostRaced' = <<>> /\ UNCHANGED <<d1CallVars, d1ReadVars>>
    \/ delHostListRules /\ UNCHANGED d1ObsVars
    \/ delHostBatch /\ UNCHANGED d1ObsVars
    \/ \E ruleName \in D1RuleNames, hostIds \in HostIdInputs :
          /\ addOrUpdateRule(ruleName, hostIds)
          /\ delHostRaced' =
                IF delHostPc # "idle" /\ \A k \in 1..Len(hostIds) : hostIds[k] # delHostId
                THEN <<ruleName, hostIds>> ELSE <<>>
          /\ UNCHANGED <<d1CallVars, d1ReadVars>>
    \/ \E ruleName \in D1RuleNames :
          delRule(ruleName) /\ delHostRaced' = <<>> /\ UNCHANGED <<d1CallVars, d1ReadVars>>

SpecD1 == InitD1 /\ [][NextD1]_vars

\* A call returned: what it was, and what the lists were when it began.
Called(name, arg, value) ==
    /\ d1Call' = [name |-> name, arg |-> arg, status |-> "returned", value |-> value]
    /\ d1Before' = [hosts |-> listHosts, rules |-> listRules]
    /\ UNCHANGED <<d1ReadVars, delHostRaced>>

\* The caller has taken the value the call returned.
CallReturned ==
    /\ d1Call # NoCall
    /\ d1Call.status = "returned"
    /\ d1Call' = NoCall
    /\ d1Before' = NoConfig
    /\ UNCHANGED <<d1Hosts, d1Rules, d1NextHostId, delHostPc, delHostId, delHostUpdates>>
    /\ UNCHANGED <<d1ReadVars, delHostRaced, utilVars, apiVars, hostIdsVars>>

\* SpecD1Calls: one call at a time, each run to completion and its value
\* taken before the next begins (delHost in its three statements, no other
\* call between them).
NextD1Calls ==
    \/ \E input \in HostInputs :
          /\ d1Call = NoCall
          /\ addOrUpdateHost(input)
          /\ Called("addOrUpdateHost", input, addOrUpdateHostReturn(input))
    \/ \E id \in D1HostIds :
          /\ d1Call = NoCall
          /\ delHostDelete(id)
          /\ d1Call' = [name |-> "delHost", arg |-> id, status |-> "running", value |-> 0]
          /\ d1Before' = [hosts |-> listHosts, rules |-> listRules]
          /\ UNCHANGED <<d1ReadVars, delHostRaced>>
    \/ delHostListRules /\ UNCHANGED d1ObsVars
    \/ /\ delHostBatch
       /\ d1Call' = [d1Call EXCEPT !.status = "returned"]
       /\ UNCHANGED <<d1Before, d1ReadVars, delHostRaced>>
    \/ \E ruleName \in D1RuleNames, hostIds \in HostIdInputs :
          /\ d1Call = NoCall
          /\ addOrUpdateRule(ruleName, hostIds)
          /\ Called("addOrUpdateRule", <<ruleName, hostIds>>, 0)
    \/ \E ruleName \in D1RuleNames :
          /\ d1Call = NoCall
          /\ delRule(ruleName)
          /\ Called("delRule", ruleName, 0)
    \/ CallReturned

SpecD1Calls == InitD1 /\ [][NextD1Calls]_vars

\* SpecD1Read: the writers fill the store while no call runs; then the
\* statements of delHost and of getHostConfig run in any order.  getReturn is
\* the HostConfig the last call returned: none once a writer was called.
NoCallRunning == delHostPc = "idle" /\ getPending = "none"
NotRead == getReturn' = NoReturn /\ UNCHANGED <<d1CallVars, delHostRefsOk, getPending, getPart, delHostRaced>>

NextD1Read ==
    \/ \E input \in HostInputs :
          NoCallRunning /\ addOrUpdateHost(input) /\ NotRead
    \/ \E ruleName \in D1RuleNames, hostIds \in HostIdInputs :
          NoCallRunning /\ addOrUpdateRule(ruleName, hostIds) /\ NotRead
    \/ \E ruleName \in D1RuleNames :
          NoCallRunning /\ delRule(ruleName) /\ NotRead
    \/ \E id \in D1HostIds :
          /\ delHostDelete(id)
          /\ delHostRefsOk' = RefsOk(listHosts, listRules)
          /\ UNCHANGED <<d1CallVars, getPending, getPart, getReturn, delHostRaced>>
    \/ delHostListRules /\ UNCHANGED d1ObsVars
    \/ delHostBatch /\ UNCHANGED d1ObsVars
    \/ \E statement \in {"hosts", "rules"} : getHostConfigFirst(statement)
    \/ getHostConfigSecond

SpecD1Read == InitD1 /\ [][NextD1Read]_vars

-----------------------------------------------------------------------------
(* hostIds sanitization (api): parseHostIds and encodeHostIds applied to    *)
(* any stored text and any array of JavaScript values.  (The store of the  *)
(* D1 specifications holds only texts encodeHostIds wrote, arrays of       *)
(* positive integers, on which parseHostIds above is the same function.)   *)

MaxItems == 3      \* most items of an array of JavaScript values

\* A JavaScript value.  A number is kept as twice its value (1.5 is 3).
JsNumber(twice) == [kind |-> "number", twice |-> twice, str |-> "", items |-> <<>>]
JsString(str) == [kind |-> "string", twice |-> 0, str |-> str, items |-> <<>>]
JsArray(items) == [kind |-> "array", twice |-> 0, str |-> "", items |-> items]
JsOther(kind) == [kind |-> kind, twice |-> 0, str |-> "", items |-> <<>>]
JsNull == JsOther("null")
JsTrue == JsOther("true")
JsObject == JsOther("object")
NaN == JsOther("NaN")

\* The numbers and string contents that occur: -2 .. 4 in halves, "", "1", "x".
Twices == -4..8
StringContents == {"", "1", "x"}

\* The JSON text of a number and of a string, one token each.
NumberToken(twice) ==
    IF twice % 2 = 0 THEN ToString(twice \div 2)
    ELSE IF twice > 0 THEN ToString((twice - 1) \div 2) \o ".5"
    ELSE "-" \o ToString((-twice - 1) \div 2) \o ".5"
StringToken(str) == "\"" \o str \o "\""

\* JSON.stringify(value): a sequence of tokens.
RECURSIVE JSONStringify(_)
JSONStringify(value) ==
    IF value.kind = "number" THEN <<NumberToken(value.twice)>>
    ELSE IF value.kind = "string" THEN <<StringToken(value.str)>>
    ELSE IF value.kind = "true" THEN <<"true">>
    ELSE IF value.kind = "object" THEN <<"{}">>
    ELSE IF value.kind = "array"
    THEN LET RECURSIVE Items(_)
             Items(k) ==
                 IF k > Len(value.items) THEN <<>>
                 ELSE (IF k > 1 THEN <<",">> ELSE <<>>)
                      \o JSONStringify(value.items[k]) \o Items(k + 1)
         IN  <<"[">> \o Items(1) \o <<"]">>
    ELSE <<"null">>

\* The value a single token stands for (kind "none": the token is no value).
TokenValue(token) ==
    IF \E t \in Twices : NumberToken(t) = token
    THEN JsNumber(CHOOSE t \in Twices : NumberToken(t) = token)
    ELSE IF \E c \in StringContents : StringToken(c) = token
    THEN JsString(CHOOSE c \in StringContents : StringToken(c) = token)
    ELSE IF token = "null" THEN JsNull
    ELSE IF token = "true" THEN JsTrue
    ELSE IF token = "{}" THEN JsObject
    ELSE JsOther("none")

NoParse == [ok |-> FALSE, value |-> JsOther("none"), next |-> 0]

\* The JSON value that starts at token i of text, and the place after it.
RECURSIVE ParseValue(_, _), ParseElements(_, _, _)
ParseValue(text, i) ==
    IF i > Len(text) THEN NoParse
    ELSE IF text[i] = "["
    THEN IF i < Len(text) /\ text[i + 1] = "]"
         THEN [ok |-> TRUE, value |-> JsArray(<<>>), next |-> i + 2]
         ELSE ParseElements(text, i + 1, <<>>)
    ELSE IF TokenValue(text[i]).kind # "none"
    THEN [ok |-> TRUE, value |-> TokenValue(text[i]), next |-> i + 1]
    ELSE NoParse

\* The elements of an array from token i on, after those in items.
ParseElements(text, i, items) ==
    LET element == ParseValue(text, i)
    IN  IF ~element.ok \/ element.next > Len(text) THEN NoParse
        ELSE IF text[element.next] = "]"
        THEN [ok |-> TRUE, value |-> JsArray(Append(items, element.value)),
              next |-> element.next + 1]
        ELSE IF text[element.next] = ","
        THEN ParseElements(text, element.next + 1, Append(items, element.value))
        ELSE NoParse

\* JSON.parse(text): the value, or a SyntaxError thrown.
JSONParse(text) ==
    LET parsed == ParseValue(text, 1)
    IN  IF parsed.ok /\ parsed.next = Len(text) + 1
        THEN [threw |-> FALSE, value |-> parsed.value]
        ELSE [threw |-> TRUE, value |-> JsOther("SyntaxError")]

\* Number(string)
StringToNumber(str) ==
    IF str = "" THEN JsNumber(0)
    ELSE IF \E t \in Twices : NumberToken(t) = str
    THEN JsNumber(CHOOSE t \in Twices : NumberToken(t) = str)
    ELSE NaN

\* Number(item): an array is converted through its text, String(array).
RECURSIVE ToNumber(_)
ToNumber(item) ==
    IF item.kind = "number" THEN item
    ELSE IF item.kind = "string" THEN StringToNumber(item.str)
    ELSE IF item.kind = "null" THEN JsNumber(0)
    ELSE IF item.kind = "true" THEN JsNumber(2)
    ELSE IF item.kind = "array"
    THEN IF item.items = <<>> THEN JsNumber(0)
         ELSE IF Len(item.items) > 1 THEN NaN
         ELSE IF item.items[1].kind = "null" THEN JsNumber(0)
         ELSE IF item.items[1].kind \in {"number", "string", "array"} THEN ToNumber(item.items[1])
         ELSE NaN
    ELSE NaN

\* Number.isInteger(item) && item > 0
IsPositiveInteger(item) == item.kind = "number" /\ item.twice % 2 = 0 /\ item.twice > 0

\* A decoder that lets the SyntaxError of JSON.parse escape.
parseHostIdsUncaught(stored) ==
    IF stored.null \/ stored.text = <<>> THEN [threw |-> FALSE, value |-> <<>>]
    ELSE LET parsed == JSONParse(stored.text)
         IN  IF parsed.threw THEN [threw |-> TRUE, value |-> <<>>]
             ELSE IF parsed.value.kind # "array" THEN [threw |-> FALSE, value |-> <<>>]
             ELSE [threw |-> FALSE,
                   value |-> Unique(SelectSeq([j \in 1..Len(parsed.value.items) |->
                                                  ToNumber(parsed.value.items[j])],
                                              IsPositiveInteger))]

\* parseHostIds(ids) of any stored value: [] for null and "", for text
\* JSON.parse throws on (caught) and for a value that is no array; else
\* map(Number), filter, new Set.
parseHostIdsOfStored(stored) ==
    IF stored.null \/ stored.text = <<>> THEN [threw |-> FALSE, value |-> <<>>]
    ELSE LET parsed == JSONParse(stored.text)
         IN  IF parsed.threw THEN [threw |-> FALSE, value |-> <<>>]
             ELSE IF parsed.value.kind # "array" THEN [threw |-> FALSE, value |-> <<>>]
             ELSE [threw |-> FALSE,
                   value |-> Unique(SelectSeq([j \in 1..Len(parsed.value.items) |->
                                                  ToNumber(parsed.value.items[j])],
                                              IsPositiveInteger))]

\* encodeHostIds(ids) of any array: filter (no conversion), new Set, JSON.stringify
encodeHostIdsOfValues(values) ==
    JSONStringify(JsArray(Unique(SelectSeq(values, IsPositiveInteger))))

\* The items of arrays: numbers (1, 2, 0, -1, 1.5), strings, null, true, an
\* object and an array.
JsItems ==
    {JsNumber(2), JsNumber(4), JsNumber(0), JsNumber(-2), JsNumber(3),
     JsString("1"), JsString("x"), JsNull, JsTrue, JsObject, JsArray(<<JsNumber(4)>>)}

\* The stored values made from an array: null, the empty text, its JSON text,
\* that text cut at either end or without its brackets (no JSON, or no array),
\* the text of its first item alone, and text that is no JSON at all.
StoredValuesOf(values) ==
    LET text == JSONStringify(JsArray(values))
    IN  {[null |-> TRUE, text |-> <<>>]} \cup
        {[null |-> FALSE, text |-> t] :
            t \in {<<>>, text, SubSeq(text, 1, Len(text) - 1), Tail(text),
                   SubSeq(text, 2, Len(text) - 1), <<"x">>}}

InitHostIds ==
    /\ UtilsInit /\ ApiInit /\ D1StoreInit
    /\ givenHostIds \in StringsOver(JsItems, MaxItems)
    /\ storedHostIds \in StoredValuesOf(givenHostIds)
    /\ hostIdsCall = "none"
    /\ hostIdsResult = [threw |-> FALSE, value |-> <<>>]

\* listRules decodes the stored value (normalizeRule).
CallParseHostIds ==
    /\ hostIdsCall \in {"none", "addOrUpdateRule"}
    /\ hostIdsCall' = IF hostIdsCall = "none" THEN "listRules"
                      ELSE "listRules after addOrUpdateRule"
    /\ hostIdsResult' = parseHostIdsOfStored(storedHostIds)
    /\ UNCHANGED <<storedHostIds, givenHostIds>>
    /\ UNCHANGED <<d1Hosts, d1Rules, d1NextHostId, delHostPc, delHostId, delHostUpdates>>
    /\ UNCHANGED <<d1ObsVars, utilVars, apiVars>>

\* addOrUpdateRule stores the encoded array.
CallEncodeHostIds ==
    /\ hostIdsCall = "none"
    /\ hostIdsCall' = "addOrUpdateRule"
    /\ storedHostIds' = [null |-> FALSE, text |-> encodeHostIdsOfValues(givenHostIds)]
    /\ UNCHANGED <<givenHostIds, hostIdsResult>>
    /\ UNCHANGED <<d1Hosts, d1Rules, d1NextHostId, delHostPc, delHostId, delHostUpdates>>
    /\ UNCHANGED <<d1ObsVars, utilVars, apiVars>>

NextHostIds == CallParseHostIds \/ CallEncodeHostIds

SpecHostIds == InitHostIds /\ [][NextHostIds]_vars

-----------------------------------------------------------------------------
(* Claims about utils.                                                     *)

\* The reference matcher: a "*."-prefixed pattern matches the hosts that are
\* some prefix followed by the text after "*."; any other pattern matches itself.
ReferenceMatch(h, p) ==
    IF Len(p) >= 2 /\ p[1] = "*" /\ p[2] = "."
    THEN \E prefix \in 0..Len(h) :
            /\ Len(h) - prefix = Len(p) - 2
            /\ \A i \in 1..(Len(p) - 2) : h[prefix + i] = p[2 + i]
    ELSE /\ Len(h) = Len(p)
         /\ \A i \in 1..Len(p) : h[i] = p[i]

\* C1: hostMatch(host, pattern) equals the reference matcher for every host and
\* pattern: suffix comparison after "*." (no dot boundary, no case folding),
\* exact equality otherwise.
C1_HostMatchIsReference ==
    call = "hostMatch" => matched = ReferenceMatch(host, rule)

\* hostMatch accepted "Aa" for "*.a": a suffix with no dot in front of it.
C1_Witness ==
    /\ call = "hostMatch"
    /\ rule = <<"*", ".", "a">>
    /\ host = <<"A", "a">>
    /\ matched

\* The positions of the rules of hostConfig whose pattern matches host.
MatchingRules == {i \in 1..Len(hostConfig.rules) : ReferenceMatch(host, hostConfig.rules[i][1])}
EarliestMatch == CHOOSE i \in MatchingRules : \A j \in MatchingRules : i <= j
HostIdsPresent == {hostConfig.hosts[j].id : j \in 1..Len(hostConfig.hosts)}

\* C2: when several rules match the host, the earliest one alone determines the
\* result (the rules after it could as well be absent), and the result is exactly
\* "DIRECT" when that rule names no existing host.
C2_EarliestRuleWins ==
    (call = "findProxyForURL" /\ MatchingRules # {}) =>
        LET r == hostConfig.rules[EarliestMatch]
        IN  /\ \A url \in Urls :
                proxies = findProxyForURL([hosts |-> hostConfig.hosts, rules |-> <<r>>], url, host)
            /\ (\A j \in 1..Len(r[2]) : r[2][j] \notin HostIdsPresent) => proxies = <<"DIRECT">>

\* Two rules match, the earlier names no existing host, the later names host 1.
C2_Witness ==
    /\ call = "findProxyForURL"
    /\ Cardinality(MatchingRules) >= 2
    /\ \A j \in 1..Len(hostConfig.rules[EarliestMatch][2]) :
          hostConfig.rules[EarliestMatch][2][j] \notin HostIdsPresent
    /\ \E i \in MatchingRules : \E j \in 1..Len(hostConfig.rules[i][2]) :
          hostConfig.rules[i][2][j] \in HostIdsPresent
    /\ proxies = <<"DIRECT">>

\* C3: findProxyForURL returns a non-empty ";"-joined list of directives whose
\* last one is "DIRECT", and exactly "DIRECT" when no rule matches the host.
C3_EndsWithDirect ==
    call = "findProxyForURL" =>
        /\ proxies # <<>>
        /\ Split(proxies, ";")[Len(Split(proxies, ";"))] = <<"DIRECT">>
        /\ \A i \in 1..Len(Split(proxies, ";")) : Split(proxies, ";")[i] # <<>>
        /\ MatchingRules = {} => proxies = <<"DIRECT">>

\* A host that matched a rule with two existing hosts: three directives.
C3_Witness ==
    /\ call = "findProxyForURL"
    /\ MatchingRules # {}
    /\ Len(Split(proxies, ";")) = 3
    /\ Split(proxies, ";")[3] = <<"DIRECT">>

\* The directives the ids of a hostIds list stand for, id by id.
RECURSIVE ExpectedDirectives(_)
ExpectedDirectives(ids) ==
    IF ids = <<>> THEN <<>>
    ELSE IF Head(ids) \notin HostIdsPresent THEN ExpectedDirectives(Tail(ids))
    ELSE LET h == CHOOSE j \in 1..Len(hostConfig.hosts) : hostConfig.hosts[j].id = Head(ids)
             item == hostConfig.hosts[h]
             type == IF item.type = Undefined \/ item.type = "" THEN "PROXY" ELSE item.type
         IN  <<type, " ", item.host, ":", ToString(item.port), ";">> \o ExpectedDirectives(Tail(ids))

\* C4: with a matching rule the result is one "{type} {host}:{port}" per id of the
\* first matching rule that is the id of a host, in the order of hostIds, type
\* "PROXY" when absent or empty, then "DIRECT"; a dangling id adds nothing.
C4_DirectivesOfFirstRule ==
    (call = "findProxyForURL" /\ MatchingRules # {}) =>
        proxies = ExpectedDirectives(hostConfig.rules[EarliestMatch][2]) \o <<"DIRECT">>

\* hostIds [2, 3, 1] with host 1 of no type: the dangling 3 is skipped.
C4_Witness ==
    /\ call = "findProxyForURL"
    /\ MatchingRules # {}
    /\ hostConfig.rules[EarliestMatch][2] = <<2, 3, 1>>
    /\ proxies = <<"HTTP", " ", "p2", ":", "8081", ";", "PROXY", " ", "p1", ":", "8080", ";", "DIRECT">>

\* C5: evaluating FindProxyForURL(url, host) of the script of generatePac(config),
\* with nothing defined but what the script defines, gives what
\* findProxyForURL(config, url, host) returns.
C5_ScriptEqualsResolver ==
    call = "FindProxyForURL" => pacResult = Returned(proxies)

-----------------------------------------------------------------------------
(* Claims about the static PAC generator.                                  *)

\* The rules GET /api/pac listed, those with a non-empty host_ids, and the
\* conditionals of the script it answered with.
PacRules == OrderByPattern(RulesOfUser(pacUser))
PacRulesWithIds == SelectSeq(PacRules, LAMBDA r : r.host_ids # <<"[", "]">>)
PacConditionals == SelectSeq(pacContent, LAMBDA st : st.kind = "if")

\* C6: the translation escapes every "." of the pattern before it expands "*"
\* into ".*", so the dot of the expansion is not escaped ("*.a" gives ".*\.a").
C6_DotsEscapedBeforeStars ==
    pacUser # 0 =>
        /\ Len(PacConditionals) = Len(PacRulesWithIds)
        /\ \A j \in 1..Len(PacConditionals) :
              PacConditionals[j].text = EscapeThenExpand(PacRulesWithIds[j].pattern)

\* C7: the emitted test /regex/.test(host) is true iff hostMatch(host, pattern).
C7_RegexEquivalentToHostMatch ==
    (pacUser # 0 /\ call = "FindProxyForURL") =>
        /\ Len(PacConditionals) = Len(PacRulesWithIds)
        /\ \A j \in 1..Len(PacConditionals) :
              RegexTest(PacConditionals[j].text, host) = hostMatch(host, PacRulesWithIds[j].pattern)

\* C8: one conditional per rule with a non-empty host_ids and none for a rule
\* with an empty one, in listing order, each returning the table entry of the
\* rule's first id (no conditional is written for a later id of a rule); the
\* script ends with the statement returning "DIRECT", which is reached exactly
\* when no conditional matched the host.
C8_SingleWinner ==
    pacUser # 0 =>
        /\ Len(PacConditionals) = Len(PacRulesWithIds)
        /\ \A j \in 1..Len(PacConditionals) :
              /\ PacConditionals[j].id = JSONParseIds(PacRulesWithIds[j].host_ids)[1]
              /\ PacConditionals[j].text = PatternToRegex(PacRulesWithIds[j].pattern)
        /\ pacContent[Len(pacContent)].kind = "return DEFAULT"
        /\ \A k \in 1..(Len(pacContent) - 1) : pacContent[k].kind # "return DEFAULT"
        /\ call = "FindProxyForURL" =>
              (pacReturn = StringValue(<<"DIRECT">>)
                  <=> \A j \in 1..Len(PacConditionals) : ~RegexTest(PacConditionals[j].text, host))

\* A rule with ids [2, 1] and a rule without ids gave a single conditional, for
\* id 2, and it matched the host.
C8_Witness ==
    /\ pacUser # 0
    /\ call = "FindProxyForURL"
    /\ \E r \in RulesOfUser(pacUser) : r.host_ids = <<"[", "2", ",", "1", "]">>
    /\ \E r \in RulesOfUser(pacUser) : r.host_ids = <<"[", "]">>
    /\ Len(PacConditionals) = 1
    /\ PacConditionals[1].id = 2
    /\ RegexTest(PacConditionals[1].text, host)
    /\ pacReturn = StringValue(<<"SOCKS5", " ", "p1", ":", "8080">>)

\* C9: the table has an entry for every host of the user whatever its type, so a
\* conditional whose first id is the id of a host of the user returns a string.
C9_EveryHostHasEntry ==
    pacUser # 0 =>
        /\ \A h \in HostsOfUser(pacUser) :
              \E k \in 1..Len(pacContent) : pacContent[k].kind = "entry" /\ pacContent[k].id = h.id
        /\ (/\ call = "FindProxyForURL"
            /\ \E j \in 1..Len(PacConditionals) : RegexTest(PacConditionals[j].text, host)
            /\ \A j \in 1..Len(PacConditionals) :
                  \E h \in HostsOfUser(pacUser) : h.id = PacConditionals[j].id)
           => pacReturn.type = "string"

-----------------------------------------------------------------------------
(* Claims about the D1 data layer.                                         *)

\* C10: whenever no call is running, every id in every rule's hostIds returned
\* by listRules is the id of a host returned by listHosts.
C10_RulesReferenceExistingHosts ==
    delHostPc = "idle" =>
        \A i \in 1..Len(listRules) : \A j \in 1..Len(listRules[i][2]) :
            \E k \in 1..Len(listHosts) : listHosts[k].id = listRules[i][2][j]

-----------------------------------------------------------------------------
(* Claims about the calls of the D1 data layer.                            *)

\* The clean form of a list of ids: the positive ones, each once, in the order
\* of their first occurrence.
RECURSIVE CleanIds(_)
CleanIds(ids) ==
    IF ids = <<>> THEN <<>>
    ELSE LET rest == CleanIds(SelectSeq(Tail(ids), LAMBDA x : x # Head(ids)))
         IN  IF Head(ids) > 0 THEN <<Head(ids)>> \o rest ELSE rest

Without(ids, id) == SelectSeq(ids, LAMBDA x : x # id)

\* C11: delHost(id), run to completion with no other call between its
\* statements, returns (it does not raise) and leaves listHosts equal to the
\* previous list without host id, and listRules equal to the previous list with
\* id taken out of every hostIds: same rules, same patterns, same positions,
\* remaining ids in their previous order, a rule left without ids kept with an
\* empty list, every other host and every rule without id unchanged.
C11_DelHostFrame ==
    d1Call.name = "delHost" =>
        /\ d1Call.status \in {"running", "returned"}
        /\ d1Call.status = "returned" =>
              /\ listHosts = SelectSeq(d1Before.hosts, LAMBDA h : h.id # d1Call.arg)
              /\ Len(listRules) = Len(d1Before.rules)
              /\ \A j \in 1..Len(listRules) :
                    listRules[j] = <<d1Before.rules[j][1], Without(d1Before.rules[j][2], d1Call.arg)>>

\* delHost returned after deleting an existing host next to another one, with a
\* rule that named both hosts and a rule that named only the deleted one.
C11_Witness ==
    /\ d1Call.name = "delHost"
    /\ d1Call.status = "returned"
    /\ d1Call.arg \in IdsOf(d1Before.hosts)
    /\ Len(listHosts) = 1
    /\ Len(d1Before.rules) = 2
    /\ \E j \in 1..2 : d1Before.rules[j][2] = <<d1Call.arg>> /\ listRules[j][2] = <<>>
    /\ \E j \in 1..2 : Len(d1Before.rules[j][2]) = 2 /\ Len(listRules[j][2]) = 1

\* C12: whenever addOrUpdateHost(db, input) returns an id n, listHosts holds
\* exactly one host with id n, carrying the input's host, port and type (PROXY
\* for an absent or blank type); for an input without id, n was the id of no
\* host before and every previous host is still listed unchanged.  This is
\* stated for every input, also one whose id is the id of no existing host.
C12_HostUpsertPostcondition ==
    d1Call.name = "addOrUpdateHost" /\ d1Call.status = "returned" =>
        LET input == d1Call.arg
            found == SelectSeq(listHosts, LAMBDA h : h.id = d1Call.value)
        IN  /\ Len(found) = 1
            /\ found[1].host = input.host
            /\ found[1].port = input.port
            /\ found[1].type = IF input.type \in {Undefined, "", " "} THEN "PROXY" ELSE input.type
            /\ input.id = 0 =>
                  /\ d1Call.value \notin IdsOf(d1Before.hosts)
                  /\ \A j \in 1..Len(d1Before.hosts) :
                        \E k \in 1..Len(listHosts) : listHosts[k] = d1Before.hosts[j]

\* C13: listRules never holds two rules of one pattern; addOrUpdateRule on a
\* pattern already listed replaces the hostIds of that rule by the clean form
\* of the given ids and leaves its position and every other rule as they were;
\* on a new pattern it adds exactly one rule, after all the previous ones.
C13_RuleUpsertByPattern ==
    /\ \A i, j \in 1..Len(listRules) : listRules[i][1] = listRules[j][1] => i = j
    /\ d1Call.name = "addOrUpdateRule" =>
          LET written == <<d1Call.arg[1], CleanIds(d1Call.arg[2])>>
              at == {j \in 1..Len(d1Before.rules) : d1Before.rules[j][1] = d1Call.arg[1]}
          IN  IF at = {}
              THEN listRules = Append(d1Before.rules, written)
              ELSE /\ Len(listRules) = Len(d1Before.rules)
                   /\ \A j \in 1..Len(listRules) :
                         listRules[j] = IF j \in at THEN written ELSE d1Before.rules[j]

\* addOrUpdateRule replaced the ids of the first of two rules by other ids.
C13_Witness ==
    /\ d1Call.name = "addOrUpdateRule"
    /\ Len(d1Before.rules) = 2
    /\ d1Before.rules[1][1] = d1Call.arg[1]
    /\ d1Before.rules[1][2] # listRules[1][2]
    /\ listRules[1][2] = <<2, 1>>

\* The items of a list that are positive integers, each once, in the order of
\* their first occurrence.
RECURSIVE CleanValues(_)
CleanValues(values) ==
    IF values = <<>> THEN <<>>
    ELSE LET rest == CleanValues(SelectSeq(Tail(values), LAMBDA v : v # Head(values)))
         IN  IF IsPositiveInteger(Head(values)) THEN <<Head(values)>> \o rest ELSE rest

\* C14: decoding any stored host_ids value (null, empty, text that is no JSON,
\* JSON that is no array, an array of any items) does not raise and gives only
\* positive integers, none twice; for a stored array these are the items that
\* convert to positive integers, in the order of their first occurrence.
\* Decoding what addOrUpdateRule encoded gives the positive integers of the
\* given list, each once in first-occurrence order, encoding that result again
\* gives the stored text back, and on a list of numbers the encoder keeps
\* exactly what the decoder keeps of the same list.
C14_HostIdsSanitized ==
    /\ hostIdsCall \in {"listRules", "listRules after addOrUpdateRule"} =>
          /\ ~hostIdsResult.threw
          /\ \A j \in 1..Len(hostIdsResult.value) : IsPositiveInteger(hostIdsResult.value[j])
          /\ \A j, k \in 1..Len(hostIdsResult.value) :
                hostIdsResult.value[j] = hostIdsResult.value[k] => j = k
    /\ hostIdsCall = "listRules"
       /\ ~storedHostIds.null /\ storedHostIds.text = JSONStringify(JsArray(givenHostIds)) =>
          hostIdsResult.value =
             CleanValues([j \in 1..Len(givenHostIds) |-> ToNumber(givenHostIds[j])])
    /\ hostIdsCall = "listRules after addOrUpdateRule" =>
          /\ hostIdsResult.value = CleanValues(givenHostIds)
          /\ encodeHostIdsOfValues(hostIdsResult.value) = storedHostIds.text
          /\ (\A j \in 1..Len(givenHostIds) : givenHostIds[j].kind = "number") =>
                hostIdsResult.value =
                   parseHostIdsOfStored([null |-> FALSE,
                                         text |-> JSONStringify(JsArray(givenHostIds))]).value

\* A list with a repeated id and an item that is no positive integer was
\* encoded and decoded again: the id is left once.
C14_Witness ==
    /\ hostIdsCall = "listRules after addOrUpdateRule"
    /\ Len(givenHostIds) = 3
    /\ givenHostIds[1] = givenHostIds[3]
    /\ ~IsPositiveInteger(givenHostIds[2])
    /\ Len(hostIdsResult.value) = 1

\* C15: a HostConfig that getHostConfig returns while delHost(id) is in
\* progress never holds a rule whose hostIds include id next to a hosts list
\* without host id, when every rule named only existing hosts as delHost began.
C15_SnapshotConsistent ==
    getReturn.delHost # 0 /\ getReturn.refsOk =>
        \/ getReturn.delHost \in IdsOf(getReturn.config.hosts)
        \/ \A j \in 1..Len(getReturn.config.rules) :
              \A k \in 1..Len(getReturn.config.rules[j][2]) :
                  getReturn.config.rules[j][2][k] # getReturn.delHost

\* C16: when addOrUpdateRule(pattern, ids), with id not among ids, committed
\* between the statements of a running delHost(id), then once delHost has
\* completed too (and no later call wrote rules) the rule of that pattern holds
\* exactly the clean form of ids.
C16_NoLostUpdate ==
    delHostPc = "idle" /\ delHostRaced # <<>> =>
        \E j \in 1..Len(listRules) :
            listRules[j] = <<delHostRaced[1], CleanIds(delHostRaced[2])>>

-----------------------------------------------------------------------------
(* Claims about the requests of the multi-user API.                        *)

\* C17: deleteHost answers 400 and changes nothing when a rule of the user
\* lists the id; updateRule answers 400 and writes nothing when a listed host
\* id is no host of the user; and in every state, also those reached when the
\* statements of a deleteHost and an updateRule request of one user interleave,
\* every id in a rule's host_ids is the id of a host of the same user.
C17_ReferencedHostsExist ==
    /\ apiResponse.route \in {"deleteHost", "updateRule"} /\ apiResponse.blocked =>
          apiResponse.status = 400 /\ ~apiResponse.wrote
    /\ \A r \in apiRules :
          \A j \in 1..Len(JSONParseIds(r.host_ids)) :
              \E h \in HostsOfUser(r.user_id) : h.id = JSONParseIds(r.host_ids)[j]

\* The rows of a table that user u owns.
OwnedBy(rows, u) == {row \in rows : row.user_id = u}

\* The body the route answers for user u when the tables hold the rows of u only.
DataOfOwnRows(route, u) ==
    CASE route = "hostList" -> HostListData(OwnedBy(apiHosts, u), u)
      [] route = "ruleList" -> RuleListData(OwnedBy(apiRules, u), u)
      [] route = "exportConfig" -> ExportConfigData(OwnedBy(apiHosts, u), OwnedBy(apiRules, u), u)
      [] route = "pac" -> PacData(OwnedBy(apiHosts, u), OwnedBy(apiRules, u), u)

====
